---- MODULE Spec2Model ----
(***************************************************************************)
(* Model of stockanomalydetectionapp/anomalydetection.py: the per-event    *)
(* anomaly-detection pipeline process_trade with its module-level state.   *)
(*                                                                         *)
(* Numbers: prices and sizes are integers.  For integers the float         *)
(* arithmetic of the source is exact where it is compared: the quotient    *)
(* (cur - last) / last is correctly rounded, so it exceeds the literal     *)
(* 0.05 exactly when the rational does, and np.std of a list is 0 exactly  *)
(* when all its entries are equal.                                         *)
(***************************************************************************)
EXTENDS Integers, Sequences, FiniteSets, TLC

VARIABLES
    high_volume_threshold,         \* defaultdict(lambda: 10000): the keys present
    rapid_price_change_threshold,  \* defaultdict(lambda: 0.05): the keys present
    transaction_history,           \* defaultdict(lambda: deque(maxlen=100))
    fit_prices_all,                \* list of every scored price
    is_fitted,                     \* global gate
    isolation_forest,              \* the estimator: size of the sample of its last fit, 0 = never fit
    processed_sequence,            \* set of sequences seen
    produced                       \* messages handed to producer.produce, in order

vars == << high_volume_threshold, rapid_price_change_threshold, transaction_history,
           fit_prices_all, is_fitted, isolation_forest, processed_sequence,
           produced >>

----------------------------------------------------------------------------
(* Program constants *)

HighVolumeDefault == 10000
PriceChangeDefault == [num |-> 5, den |-> 100]    \* 0.05 as a ratio
HistoryMaxLen == 100
WarmupSamples == 100
RetrainEvery == 1000

(* Bounds of the model *)

MaxSeq == 1                       \* sequences of the events fed in: 1..MaxSeq

Symbols == {"X", "Y"}
Prices == {0, 100, 105, 106}
Sizes == {10000, 10001}
SeqIds == 1..MaxSeq
Fields == {"sequence", "symbol", "price", "size"}

----------------------------------------------------------------------------
(* Payloads: the argument raw_trade_data.  form is its Python type (a str  *)
(* goes through json.loads, anything else is used as it is), json what the *)
(* text decodes to, has the keys of the decoded record.                     *)

Blank == [sequence |-> 1, symbol |-> "X", price |-> 100, size |-> 10000]

\* a decoded record with the keys has, as a dict or as its JSON text
Record(f, h, q, s, p, z) ==
    [form |-> f, json |-> "object", has |-> h,
     sequence |-> q, symbol |-> s, price |-> p, size |-> z]

\* the well-formed events, already decoded by the transport
Events ==
    { Record("dict", Fields, q, s, p, z) :
        q \in SeqIds, s \in Symbols, p \in Prices, z \in Sizes }

\* well-formed events that arrive as JSON text
TextEvents ==
    { Record("str", Fields, q, s, p, z) :
        q \in SeqIds, s \in Symbols, p \in Prices, z \in Sizes }

\* records that lack one required field (the fields they have are such
\* that every rule reached would fire on a known symbol)
Incomplete ==
    { Record("dict", Fields \ {f}, q, s, 106, 10001) :
        f \in Fields, q \in SeqIds, s \in Symbols }

\* text that json.loads rejects, and text that decodes to something that is no object
Unparseable == [form |-> "str", json |-> "invalid", has |-> {}] @@ Blank
NotAnObject == [form |-> "str", json |-> "scalar", has |-> {}] @@ Blank

Malformed == Incomplete \cup {Unparseable, NotAnObject}

Payloads == Events \cup TextEvents \cup Malformed

(* What the collaborators outside the module do in one call: the producer  *)
(* (app.get_producer() may raise, producer.produce may raise, and the      *)
(* flush that ends the with block may raise when a message is waiting),    *)
(* and the estimator's verdict (decision_function's sign) and its          *)
(* treatment of NaN input.                                                  *)
Envs == [producer : {"ok", "acquire_fails", "produce_fails", "flush_fails"},
         score_negative : BOOLEAN,
         nan_input : {"rejected", "accepted"}]

----------------------------------------------------------------------------
(* Helpers for the Python containers *)

DictGet(d, k, default) == IF k \in DOMAIN d THEN d[k] ELSE default

\* d[k] on a defaultdict: a missing key is inserted with the default
DictTouch(d, k, default) == IF k \in DOMAIN d THEN d ELSE (k :> default) @@ d

DictSet(d, k, v) == (k :> v) @@ d

(* Lists of prices (the deques of transaction_history and fit_prices_all)   *)
(* are kept run-length encoded: a sequence of runs [v |-> price, n |-> how *)
(* many times in a row], n >= 1, neighbouring runs of different price.     *)
(* Every list has exactly one such encoding, so nothing is abstracted; it  *)
(* keeps a corpus of 1000 equal prices one run long.                        *)

EmptyList == << >>

RECURSIVE ListLen(_)
\* len(l)
ListLen(l) == IF l = << >> THEN 0 ELSE l[1].n + ListLen(Tail(l))

\* l[-1]
ListLast(l) == l[Len(l)].v

\* l.append(x)
ListAppend(l, x) ==
    IF l # << >> /\ l[Len(l)].v = x
    THEN [l EXCEPT ![Len(l)].n = @ + 1]
    ELSE Append(l, [v |-> x, n |-> 1])

\* l without its first (oldest) element
ListDropFirst(l) == IF l[1].n = 1 THEN Tail(l) ELSE [l EXCEPT ![1].n = @ - 1]

\* a faulty variant of DequeAppend: nothing is ever evicted
DequeAppend_unbounded(q, x) == ListAppend(q, x)

\* deque(maxlen=HistoryMaxLen).append: the oldest entry leaves a full deque
DequeAppend(q, x) ==
    IF ListLen(q) >= HistoryMaxLen THEN ListAppend(ListDropFirst(q), x) ELSE ListAppend(q, x)

(* The set processed_sequence is kept as its maximal intervals [lo, hi]:   *)
(* every finite set of ints has exactly one such form, so this too only   *)
(* keeps long runs of consecutive sequences small.                         *)

EmptySet == {}

\* x in s
SetHas(s, x) == \E r \in s : r.lo <= x /\ x <= r.hi

\* s.add(x)
SetAdd(s, x) ==
    IF SetHas(s, x) THEN s
    ELSE LET below == {r \in s : r.hi = x - 1}
             above == {r \in s : r.lo = x + 1}
             lo == IF below = {} THEN x ELSE (CHOOSE r \in below : TRUE).lo
             hi == IF above = {} THEN x ELSE (CHOOSE r \in above : TRUE).hi
         IN  (s \ (below \cup above)) \cup {[lo |-> lo, hi |-> hi]}

RECURSIVE SetLen(_)
\* len(s)
SetLen(s) ==
    IF s = {} THEN 0
    ELSE LET r == CHOOSE r \in s : TRUE IN (r.hi - r.lo + 1) + SetLen(s \ {r})

Abs(x) == IF x < 0 THEN -x ELSE x

\* np.std(prices) == 0: all the prices are equal
StdIsZero(prices) == Len(prices) <= 1

Digit(d) == CASE d = 0 -> "0" [] d = 1 -> "1" [] d = 2 -> "2" [] d = 3 -> "3"
              [] d = 4 -> "4" [] d = 5 -> "5" [] d = 6 -> "6" [] d = 7 -> "7"
              [] d = 8 -> "8" [] d = 9 -> "9"

RECURSIVE Str(_)
\* str(n) of a non-negative int
Str(n) == IF n < 10 THEN Digit(n) ELSE Str(n \div 10) \o Digit(n % 10)

----------------------------------------------------------------------------
(* The module's globals as one record, so that the functions below are     *)
(* the source's functions: they take the globals and return them updated.  *)

Globals ==
    [ high_volume_threshold |-> high_volume_threshold,
      rapid_price_change_threshold |-> rapid_price_change_threshold,
      transaction_history |-> transaction_history,
      fit_prices_all |-> fit_prices_all,
      is_fitted |-> is_fitted,
      isolation_forest |-> isolation_forest,
      processed_sequence |-> processed_sequence,
      produced |-> produced ]

\* the state after the module is loaded (lines 28-36)
Fresh ==
    [ high_volume_threshold |-> << >>,
      rapid_price_change_threshold |-> << >>,
      transaction_history |-> << >>,
      fit_prices_all |-> EmptyList,
      is_fitted |-> FALSE,
      isolation_forest |-> 0,
      processed_sequence |-> EmptySet,
      produced |-> << >> ]

\* results of the rule functions: the value returned or the exception raised
Return(g, v) == [g |-> g, error |-> "none", value |-> v]
Raise(g, e) == [g |-> g, error |-> e, value |-> FALSE]

\* a faulty variant of high_volume_rule: the comparison is not strict
high_volume_rule_or_equal(g, trade_data) ==
    IF "size" \notin trade_data.has THEN Raise(g, "KeyError")
    ELSE IF "symbol" \notin trade_data.has THEN Raise(g, "KeyError")
    ELSE LET thr == DictTouch(g.high_volume_threshold, trade_data.symbol, HighVolumeDefault)
         IN  Return([g EXCEPT !.high_volume_threshold = thr],
                    trade_data.size >= thr[trade_data.symbol])

high_volume_rule(g, trade_data) ==
    IF "size" \notin trade_data.has THEN Raise(g, "KeyError")
    ELSE IF "symbol" \notin trade_data.has THEN Raise(g, "KeyError")
    ELSE LET thr == DictTouch(g.high_volume_threshold, trade_data.symbol, HighVolumeDefault)
         IN  Return([g EXCEPT !.high_volume_threshold = thr],
                    trade_data.size > thr[trade_data.symbol])

\* a faulty variant of Record_price: the price goes into every history
Record_price_everywhere(g, symbol, current_price) ==
    [g EXCEPT !.transaction_history =
        [s \in DOMAIN @ |-> DequeAppend(@[s], current_price)]]

\* history[symbol].append(current_price)
Record_price(g, symbol, current_price) ==
    [g EXCEPT !.transaction_history =
        DictSet(@, symbol, DequeAppend(@[symbol], current_price))]

\* a faulty variant of first_sighting: the first trade of a symbol is flagged
first_sighting_flagged(g, symbol, current_price) ==
    Return(Record_price(g, symbol, current_price), TRUE)

\* lines 45-47: no prior price, the price is recorded and nothing fires
first_sighting(g, symbol, current_price) ==
    Return(Record_price(g, symbol, current_price), FALSE)

\* a faulty variant of Exceeds: the comparison is not strict
Exceeds_or_equals(current_price, last_price, threshold) ==
    Abs(current_price - last_price) * threshold.den >= threshold.num * Abs(last_price)

\* abs((current_price - last_price)/last_price) > threshold, for last_price # 0
Exceeds(current_price, last_price, threshold) ==
    Abs(current_price - last_price) * threshold.den > threshold.num * Abs(last_price)

rapid_price_change(g, trade_data) ==
    IF "symbol" \notin trade_data.has THEN Raise(g, "KeyError")
    ELSE IF "price" \notin trade_data.has THEN Raise(g, "KeyError")
    ELSE
      LET symbol == trade_data.symbol
          current_price == trade_data.price
          \* history[symbol] makes the deque of a symbol not seen before
          g1 == [g EXCEPT !.transaction_history = DictTouch(@, symbol, EmptyList)]
      IN
      IF g1.transaction_history[symbol] = EmptyList
      THEN first_sighting(g1, symbol, current_price)
      ELSE
        LET last_price == ListLast(g1.transaction_history[symbol])
        IN
        IF last_price = 0 THEN Raise(g1, "ZeroDivisionError")
        ELSE
          LET g2 == Record_price(g1, symbol, current_price)
              thr == DictTouch(g.rapid_price_change_threshold, symbol, PriceChangeDefault)
          IN  Return([g2 EXCEPT !.rapid_price_change_threshold = thr],
                     Exceeds(current_price, last_price, thr[symbol]))

\* a faulty variant of isolation_forest_anomaly: every event is scored, no gate
isolation_forest_anomaly_ungated(g, trade_date, env) ==
    IF "price" \notin trade_date.has THEN Raise(g, "KeyError")
    ELSE Return([g EXCEPT !.fit_prices_all = ListAppend(@, trade_date.price)],
                env.score_negative)

\* a faulty variant of isolation_forest_anomaly: the gate is cleared by a
\* call that does not refit
isolation_forest_anomaly_forgetful(g, trade_date, env) ==
    IF "price" \notin trade_date.has THEN Raise(g, "KeyError")
    ELSE
      LET fit_prices == ListAppend(g.fit_prices_all, trade_date.price)
          refit == ListLen(fit_prices) % RetrainEvery = 0
      IN  Return([g EXCEPT !.fit_prices_all = fit_prices,
                           !.isolation_forest = IF refit THEN ListLen(fit_prices) ELSE @,
                           !.is_fitted = refit],
                 refit /\ env.score_negative)

isolation_forest_anomaly(g, trade_date, env) ==
    IF "price" \notin trade_date.has THEN Raise(g, "KeyError")
    ELSE
      LET current_price == trade_date.price
          fit_prices == ListAppend(g.fit_prices_all, current_price)
          g1 == [g EXCEPT !.fit_prices_all = fit_prices]
          \* a zero np.std makes every normalized value NaN (numpy warns, does not raise)
          nan == StdIsZero(fit_prices)
      IN
      IF ListLen(fit_prices) < WarmupSamples THEN Return(g1, FALSE)
      ELSE
        LET refit == ListLen(fit_prices) % RetrainEvery = 0
            g2 == IF refit
                  THEN [g1 EXCEPT !.isolation_forest = ListLen(fit_prices), !.is_fitted = TRUE]
                  ELSE g1
        IN
        IF refit /\ nan /\ env.nan_input = "rejected" THEN Raise(g1, "ValueError")
        ELSE IF ~g2.is_fitted THEN Return(g2, FALSE)
        ELSE IF nan /\ env.nan_input = "rejected" THEN Raise(g2, "ValueError")
        ELSE Return(g2, env.score_negative)

\* the end of a call: the globals it leaves, how it ended (outcome, and the
\* exception when it raised) and its local list anomalies
Finish(g, outcome, error, anomalies) ==
    [g |-> g, outcome |-> outcome, error |-> error, anomalies |-> anomalies]

\* a faulty variant of Message: the key is not the event's sequence
Message_other_key(trade_data, anomalies) ==
    [key |-> Str(trade_data.sequence + 1),
     value |-> [sequence |-> trade_data.sequence, symbol |-> trade_data.symbol,
                price |-> trade_data.price, size |-> trade_data.size,
                anomalies |-> anomalies]]

\* lines 111-120: the arguments of producer.produce, key and value
Message(trade_data, anomalies) ==
    [key |-> Str(trade_data.sequence),
     value |-> [sequence |-> trade_data.sequence, symbol |-> trade_data.symbol,
                price |-> trade_data.price, size |-> trade_data.size,
                anomalies |-> anomalies]]

\* a faulty variant of IsDuplicate: the dedup check is missing
IsDuplicate_never(g, sequence) == FALSE

\* line 89: sequence in processed_sequence
IsDuplicate(g, sequence) == SetHas(g.processed_sequence, sequence)

\* a faulty variant of OnDuplicate: a duplicate is reported as an error
OnDuplicate_raises(g) == Finish(g, "raised", "DuplicateEvent", << >>)

\* line 90: the duplicate is dropped
OnDuplicate(g) == Finish(g, "duplicate", "none", << >>)

\* a faulty variant of DecodeFailure: the undecodable payload is marked as seen
DecodeFailure_marks(g) ==
    Finish([g EXCEPT !.processed_sequence = SetAdd(@, 0)], "undecodable", "none", << >>)

\* lines 83-85: json.loads raised JSONDecodeError, the failure is printed
DecodeFailure(g) == Finish(g, "undecodable", "none", << >>)

\* a faulty variant of ProduceFailure: the exception is caught and dropped
ProduceFailure_swallowed(g, anomalies) == Finish(g, "processed", "none", anomalies)

\* lines 116-120: producer.produce raises; nothing catches it
ProduceFailure(g, anomalies) == Finish(g, "raised", "ProducerError", anomalies)

\* the call gets past decoding and the dedup check (lines 81-90), to the
\* only part of process_trade that uses the producer and the estimator
Admitted(g, raw) ==
    /\ raw.json = "object"
    /\ "sequence" \in raw.has
    /\ ~IsDuplicate(g, raw.sequence)

\* what the detectors leave: the globals, the exception one of them raised
\* and the list anomalies built so far
Detection(g, error, anomalies) == [g |-> g, error |-> error, anomalies |-> anomalies]

\* a faulty variant of Detect: the detectors after the first that fires do
\* not run
Detect_short_circuit(g, trade_data, env) ==
    LET hv == high_volume_rule(g, trade_data)
        rp == rapid_price_change(hv.g, trade_data)
        if == isolation_forest_anomaly(rp.g, trade_data, env)
    IN
    IF hv.error # "none" THEN Detection(hv.g, hv.error, << >>)
    ELSE IF hv.value THEN Detection(hv.g, "none", << "High Volume" >>)
    ELSE IF rp.error # "none" THEN Detection(rp.g, rp.error, << >>)
    ELSE IF rp.value THEN Detection(rp.g, "none", << "Rapid Price Change" >>)
    ELSE IF if.error # "none" THEN Detection(if.g, if.error, << >>)
    ELSE Detection(if.g, "none", IF if.value THEN << "Isolation Forest" >> ELSE << >>)

\* lines 95-108: the three detectors in order, each appending its label
Detect(g, trade_data, env) ==
    LET hv == high_volume_rule(g, trade_data)
        a1 == IF hv.value THEN << "High Volume" >> ELSE << >>
        rp == rapid_price_change(hv.g, trade_data)
        a2 == IF rp.value THEN Append(a1, "Rapid Price Change") ELSE a1
        if == isolation_forest_anomaly(rp.g, trade_data, env)
        a3 == IF if.value THEN Append(a2, "Isolation Forest") ELSE a2
    IN
    IF hv.error # "none" THEN Detection(hv.g, hv.error, << >>)
    ELSE IF rp.error # "none" THEN Detection(rp.g, rp.error, a1)
    ELSE IF if.error # "none" THEN Detection(if.g, if.error, a2)
    ELSE Detection(if.g, "none", a3)

\* lines 94-120: the with block, g0 the globals on entering it and d what
\* the detectors leave when the producer was acquired
WithProducer(g0, d, trade_data, env) ==
    IF env.producer = "acquire_fails" THEN Finish(g0, "raised", "ProducerError", << >>)
    ELSE IF d.error # "none" THEN Finish(d.g, "raised", d.error, d.anomalies)
    ELSE IF d.anomalies = << >> THEN Finish(d.g, "processed", "none", d.anomalies)
    ELSE IF env.producer = "produce_fails" THEN ProduceFailure(d.g, d.anomalies)
    ELSE IF env.producer = "flush_fails"
    THEN Finish([d.g EXCEPT !.produced = Append(@, Message(trade_data, d.anomalies))],
                "raised", "ProducerError", d.anomalies)
    ELSE Finish([d.g EXCEPT !.produced = Append(@, Message(trade_data, d.anomalies))],
                "processed", "none", d.anomalies)

\* line 92: processed_sequence.add(sequence)
MarkSeen(g, sequence) == [g EXCEPT !.processed_sequence = SetAdd(@, sequence)]

process_trade(g, raw, env) ==
    IF raw.form = "str" /\ raw.json = "invalid"
    THEN DecodeFailure(g)
    ELSE IF raw.json # "object" THEN Finish(g, "raised", "TypeError", << >>)
    ELSE IF "sequence" \notin raw.has THEN Finish(g, "raised", "KeyError", << >>)
    ELSE IF IsDuplicate(g, raw.sequence) THEN OnDuplicate(g)
    ELSE WithProducer(MarkSeen(g, raw.sequence),
                      Detect(MarkSeen(g, raw.sequence), raw, env), raw, env)

----------------------------------------------------------------------------
(* Initial states.  Besides the freshly loaded module, the states reached  *)
(* by feeding it n well-formed events of symbol X with new sequences, all  *)
(* of price 100 and size 10000 except the first: the corpus sizes around   *)
(* the warm-up length and the retrain sizes, which no short run from Fresh *)
(* reaches.  Each is computed by process_trade itself, event after event.  *)

WarmEvent(i, w) ==
    Record("dict", Fields, MaxSeq + i, "X",
           IF i = 1 THEN w.first ELSE 100, IF i = 1 THEN w.size ELSE 10000)

QuietEnv == [producer |-> "ok", score_negative |-> FALSE, nan_input |-> "rejected"]

RECURSIVE Replay(_, _, _, _)
\* g after process_trade of the events a..b of the warm-up w, in order
Replay(g, a, b, w) ==
    IF a > b THEN g
    ELSE IF a = b THEN process_trade(g, WarmEvent(a, w), QuietEnv).g
    ELSE LET mid == (a + b) \div 2
             half == Replay(g, a, mid, w)
         IN  \* the test makes TLC evaluate the first half before the second
             IF half.is_fitted \in BOOLEAN THEN Replay(half, mid + 1, b, w) ELSE g

Warmups ==
    { [n |-> 0, first |-> 100, size |-> 10000],
      [n |-> 1, first |-> 0, size |-> 10000],
      [n |-> 98, first |-> 100, size |-> 10000],
      [n |-> 98, first |-> 100, size |-> 10001],
      [n |-> 99, first |-> 100, size |-> 10000],
      [n |-> 998, first |-> 100, size |-> 10000],
      [n |-> 999, first |-> 100, size |-> 10000],
      [n |-> 999, first |-> 105, size |-> 10000],
      [n |-> 1000, first |-> 105, size |-> 10000],
      [n |-> 1999, first |-> 105, size |-> 10000] }

Load(g) ==
    /\ high_volume_threshold = g.high_volume_threshold
    /\ rapid_price_change_threshold = g.rapid_price_change_threshold
    /\ transaction_history = g.transaction_history
    /\ fit_prices_all = g.fit_prices_all
    /\ is_fitted = g.is_fitted
    /\ isolation_forest = g.isolation_forest
    /\ processed_sequence = g.processed_sequence
    /\ produced = g.produced

Init == \E w \in Warmups : Load(Replay(Fresh, 1, w.n, w))

ProcessTrade(raw, env) ==
    LET g == process_trade(Globals, raw, env).g
    IN  /\ high_volume_threshold' = g.high_volume_threshold
        /\ rapid_price_change_threshold' = g.rapid_price_change_threshold
        /\ transaction_history' = g.transaction_history
        /\ fit_prices_all' = g.fit_prices_all
        /\ is_fitted' = g.is_fitted
        /\ isolation_forest' = g.isolation_forest
        /\ processed_sequence' = g.processed_sequence
        /\ produced' = g.produced

\* what the collaborators may do in a call: nothing to choose in a call that
\* ends before it reaches them
EnvsOf(g, raw) == IF Admitted(g, raw) THEN Envs ELSE {QuietEnv}

Next == \E raw \in Payloads : \E env \in EnvsOf(Globals, raw) : ProcessTrade(raw, env)

Spec == Init /\ [][Next]_vars

----------------------------------------------------------------------------
(* Properties.  A property of a call is stated over every call that can be *)
(* made in a reachable state: Outcome(raw, env) is what process_trade      *)
(* would return and leave behind if called now.                            *)

Outcome(raw, env) == process_trade(Globals, raw, env)

Has(labels, l) == \E i \in DOMAIN labels : labels[i] = l

\* the payloads that decode to a record with every required field
WellFormed == Events \cup TextEvents

\* the payloads that decode to a record
Decodable == WellFormed \cup Incomplete

HistoryOf(symbol) == DictGet(transaction_history, symbol, EmptyList)

\* the records as the detectors see them: they read symbol, price and size,
\* never the sequence
Trades == { raw \in Events : raw.sequence = 1 }

\* what the estimator may do in a scorer call (the scorer has no producer)
ScorerEnvs == { env \in Envs : env.producer = "ok" }

\* every sequence of a is in b
SetSubset(a, b) == \A r \in a : \E t \in b : t.lo <= r.lo /\ r.hi <= t.hi

\* C1: dedup idempotence.  No two produced messages have the same key; the
\* corpus never holds more prices than there are sequences seen; and in every
\* state, a call changes a price history, the corpus or the output only if
\* its sequence was not seen before and is seen afterwards, while sequences
\* once seen stay seen: so at most one event of a sequence mutates or emits.
C1_DedupIdempotence ==
    /\ \A i, j \in DOMAIN produced : produced[i].key = produced[j].key => i = j
    /\ ListLen(fit_prices_all) <= SetLen(processed_sequence)
    /\ \A raw \in Payloads : \A env \in EnvsOf(Globals, raw) :
         LET r == Outcome(raw, env)
         IN  /\ SetSubset(processed_sequence, r.g.processed_sequence)
             /\ ( \/ r.g.transaction_history # transaction_history
                  \/ r.g.fit_prices_all # fit_prices_all
                  \/ r.g.produced # produced )
                => /\ raw.json = "object" /\ "sequence" \in raw.has
                   /\ ~SetHas(processed_sequence, raw.sequence)
                   /\ SetHas(r.g.processed_sequence, raw.sequence)
             /\ Len(r.g.produced) <= Len(produced) + 1

\* C1 witness: an event was processed and emitted, and is delivered again
C1_Witness ==
    \E raw \in Events :
        /\ SetHas(processed_sequence, raw.sequence)
        /\ \E i \in DOMAIN produced : produced[i].key = Str(raw.sequence)
        /\ Outcome(raw, QuietEnv).outcome = "duplicate"

\* C2: a call whose sequence is already in processed_sequence returns
\* without an error and leaves every global and the output as they were,
\* whatever the record holds and whatever the producer would have done.
C2_DuplicateIsNoOp ==
    \A raw \in Decodable :
        ("sequence" \in raw.has /\ SetHas(processed_sequence, raw.sequence))
        => \A env \in Envs :
             LET r == Outcome(raw, env)
             IN  /\ r.g = Globals
                 /\ r.outcome = "duplicate"
                 /\ r.error = "none"
                 /\ r.anomalies = << >>

\* C2 witness: a redelivered event that would fire two rules and move its
\* symbol's price history if it were processed again
C2_Witness ==
    \E raw \in Events :
        /\ SetHas(processed_sequence, raw.sequence)
        /\ HistoryOf(raw.symbol) # EmptyList
        /\ ListLast(HistoryOf(raw.symbol)) = 100
        /\ raw.price = 106
        /\ raw.size = 10001
        /\ fit_prices_all # EmptyList

\* C3: first-sighting immunity.  An event of a symbol with no recorded price
\* never gets the label Rapid Price Change, whatever its price, and (unless
\* the producer could not be acquired, when no rule runs) the symbol's
\* history afterwards holds that one price.
C3_FirstSightingImmunity ==
    \A raw \in WellFormed :
        (Admitted(Globals, raw) /\ HistoryOf(raw.symbol) = EmptyList)
        => \A env \in Envs :
             LET r == Outcome(raw, env)
             IN  /\ ~Has(r.anomalies, "Rapid Price Change")
                 /\ env.producer # "acquire_fails"
                    => r.g.transaction_history[raw.symbol] = << [v |-> raw.price, n |-> 1] >>
                 /\ rapid_price_change(Globals, raw).value = FALSE

\* C3 witness: the first Y trade came at a price far from the 100 trades of X
\* before it, with a size that fired High Volume alone
C3_Witness ==
    /\ HistoryOf("Y") = << [v |-> 0, n |-> 1] >>
    /\ ListLen(HistoryOf("X")) >= 98
    /\ \E i \in DOMAIN produced :
         /\ produced[i].value.symbol = "Y"
         /\ produced[i].value.anomalies = << "High Volume" >>

\* the relative change |p - last| / last is strictly above 5%, for last > 0
ChangeAbove5Percent(p, last) == 20 * Abs(p - last) > last

\* C4: price-change rule.  For a symbol whose last recorded price is above 0
\* the rule returns, without an error, whether the relative change is
\* strictly above 5% (the default threshold, which is the one in force), and
\* the event carries the label exactly then: 100 -> 105 does not fire,
\* 100 -> 106 does.
C4_PriceChangeRule ==
    \A raw \in WellFormed :
        LET h == HistoryOf(raw.symbol)
        IN  (h # EmptyList /\ ListLast(h) > 0)
            => LET last == ListLast(h)
                   rule == rapid_price_change(Globals, raw)
               IN  /\ rule.error = "none"
                   /\ rule.value <=> ChangeAbove5Percent(raw.price, last)
                   /\ rule.g.rapid_price_change_threshold[raw.symbol] = PriceChangeDefault
                   /\ (last = 100 /\ raw.price = 105) => ~rule.value
                   /\ (last = 100 /\ raw.price = 106) => rule.value
                   /\ Admitted(Globals, raw)
                      => \A env \in Envs :
                           env.producer # "acquire_fails"
                           => ( Has(Outcome(raw, env).anomalies, "Rapid Price Change")
                                <=> ChangeAbove5Percent(raw.price, last) )

\* C4 witness: X went from 100 to 105 in an event that was emitted for its
\* size alone
C4_Witness ==
    /\ Len(HistoryOf("X")) >= 2
    /\ LET h == HistoryOf("X")
       IN  /\ h[Len(h)] = [v |-> 105, n |-> 1]
           /\ h[Len(h) - 1].v = 100
    /\ \E i \in DOMAIN produced :
         /\ produced[i].value.symbol = "X"
         /\ produced[i].value.price = 105
         /\ produced[i].value.anomalies = << "High Volume" >>

\* C5: volume rule.  The rule returns whether size is strictly above 10000,
\* the threshold of every symbol; the event carries the label High Volume
\* exactly then: size 10000 does not fire, 10001 does.
C5_VolumeRule ==
    /\ \A s \in DOMAIN high_volume_threshold : high_volume_threshold[s] = 10000
    /\ \A raw \in WellFormed :
         LET rule == high_volume_rule(Globals, raw)
         IN  /\ rule.error = "none"
             /\ rule.value <=> raw.size > 10000
             /\ raw.size = 10000 => ~rule.value
             /\ raw.size = 10001 => rule.value
             /\ rule.g.high_volume_threshold[raw.symbol] = 10000
             /\ Admitted(Globals, raw)
                => \A env \in Envs :
                     env.producer # "acquire_fails"
                     => ( Has(Outcome(raw, env).anomalies, "High Volume")
                          <=> raw.size > 10000 )

\* C5 witness: one event of size 10001 was emitted with High Volume, and one
\* of size 10000 was emitted without it
C5_Witness ==
    /\ \E i \in DOMAIN produced :
         /\ produced[i].value.size = 10001
         /\ Has(produced[i].value.anomalies, "High Volume")
    /\ \E i \in DOMAIN produced :
         /\ produced[i].value.size = 10000
         /\ ~Has(produced[i].value.anomalies, "High Volume")

\* C6: when the last recorded price of the event's symbol is 0, the event is
\* processed without an error and without the label Rapid Price Change.
C6_ZeroPriorFailsClosed ==
    \A raw \in WellFormed :
        LET h == HistoryOf(raw.symbol)
        IN  (Admitted(Globals, raw) /\ h # EmptyList /\ ListLast(h) = 0)
            => LET r == Outcome(raw, QuietEnv)
               IN  /\ r.error = "none"
                   /\ r.outcome = "processed"
                   /\ ~Has(r.anomalies, "Rapid Price Change")

\* C7: when all the prices of the corpus, the event's included, are equal,
\* the scorer returns "not anomalous" and raises nothing, at every corpus
\* size.
C7_ZeroStdFailsClosed ==
    \A raw \in WellFormed : \A env \in Envs :
        StdIsZero(ListAppend(fit_prices_all, raw.price))
        => LET r == isolation_forest_anomaly(Globals, raw, env)
           IN  r.error = "none" /\ r.value = FALSE

\* C8: a malformed payload (text that does not parse, JSON that is no
\* object, a record that lacks a required field) is dropped: the call raises
\* nothing and changes nothing.
C8_MalformedDropped ==
    \A raw \in Malformed : \A env \in EnvsOf(Globals, raw) :
        LET r == Outcome(raw, env)
        IN  r.error = "none" /\ r.g = Globals

\* C9: text that json.loads rejects changes nothing: processed_sequence,
\* transaction_history, fit_prices_all, is_fitted, the estimator and the
\* output are as before the call.
C9_UnparseableChangesNothing ==
    \A env \in Envs :
        LET r == Outcome(Unparseable, env)
        IN  /\ r.g = Globals
            /\ r.outcome = "undecodable"
            /\ r.anomalies = << >>

\* C9 witness: a state with something in every global that the call could
\* have changed
C9_Witness ==
    /\ SetHas(processed_sequence, 1)
    /\ DOMAIN transaction_history = Symbols
    /\ is_fitted
    /\ produced # << >>
    /\ Outcome(Unparseable, QuietEnv).outcome = "undecodable"

\* C10: warm-up gating.  An event after whose price the corpus holds fewer
\* than 100 samples never gets the label Isolation Forest, whatever its
\* price and whatever the estimator would answer; so while the corpus is that
\* small no produced message carries the label.
C10_WarmupGating ==
    /\ ListLen(fit_prices_all) < 100
       => \A i \in DOMAIN produced : ~Has(produced[i].value.anomalies, "Isolation Forest")
    /\ \A raw \in WellFormed :
         (Admitted(Globals, raw) /\ ListLen(fit_prices_all) + 1 < 100)
         => \A env \in Envs :
              /\ ~Has(Outcome(raw, env).anomalies, "Isolation Forest")
              /\ isolation_forest_anomaly(Globals, raw, env).value = FALSE

\* C10 witness: the 99th sample was a price far from the 98 before it, in an
\* event emitted for its price change alone
C10_Witness ==
    /\ ListLen(fit_prices_all) = 99
    /\ ListLast(fit_prices_all) = 106
    /\ \E i \in DOMAIN produced :
         /\ produced[i].value.price = 106
         /\ produced[i].value.anomalies = << "Rapid Price Change" >>

\* C11: retrain cadence.  In a scorer call the estimator is refit exactly when
\* the corpus, after the append, holds a multiple of 1000 prices; the refit is
\* over that whole corpus and is done before the event is scored, so the
\* event that triggers the first refit can already be flagged, and an event
\* is flagged only by the estimator fit at the last multiple of 1000.
C11_RetrainCadence ==
    \A raw \in WellFormed : \A env \in Envs :
        LET n == ListLen(fit_prices_all) + 1
            r == isolation_forest_anomaly(Globals, raw, env)
        IN  /\ (r.g.isolation_forest # isolation_forest) <=> (n % 1000 = 0)
            /\ (n % 1000 = 0) => (r.g.isolation_forest = n /\ r.g.is_fitted)
            /\ (n % 1000 = 0 /\ r.error = "none") => (r.value <=> env.score_negative)
            /\ r.value => r.g.isolation_forest = 1000 * (n \div 1000)

\* at least one of the three detectors, run in the pipeline's order, fires
Fired(raw, env) ==
    LET hv == high_volume_rule(Globals, raw)
        rp == rapid_price_change(hv.g, raw)
        if == isolation_forest_anomaly(rp.g, raw, env)
    IN  hv.value \/ rp.value \/ if.value

\* the three detectors return for the event (none raises)
Detected(raw, env) ==
    LET hv == high_volume_rule(Globals, raw)
        rp == rapid_price_change(hv.g, raw)
        if == isolation_forest_anomaly(rp.g, raw, env)
    IN  hv.error = "none" /\ rp.error = "none" /\ if.error = "none"

C13_PublishFailureSurfaced ==
    \A raw \in WellFormed : \A env \in Envs :
        (Admitted(Globals, raw) /\ Detected(raw, env) /\ Fired(raw, env))
        => LET r == Outcome(raw, env)
           IN  /\ env.producer # "ok"
                  => (r.outcome = "raised" /\ r.error = "ProducerError")
               /\ r.outcome = "processed"
                  => (env.producer = "ok" /\ Len(r.g.produced) = Len(produced) + 1)

\* C13 witness: the event of sequence 1 moved X from 100 to 106, which fires
\* Rapid Price Change, and no message of key "1" is in the output: produce
\* failed for it
C13_Witness ==
    /\ SetHas(processed_sequence, 1)
    /\ Len(HistoryOf("X")) >= 2
    /\ LET h == HistoryOf("X")
       IN  h[Len(h)] = [v |-> 106, n |-> 1] /\ h[Len(h) - 1].v = 100
    /\ \A i \in DOMAIN produced : produced[i].key # "1"

\* the label of a detector that fired, as a list
Label(fired, label) == IF fired THEN << label >> ELSE << >>

C15_PerEventAtomicity ==
    \A raw \in Decodable : \A env \in EnvsOf(Globals, raw) :
        Admitted(Globals, raw)
        => LET r == Outcome(raw, env)
               all == /\ SetHas(r.g.processed_sequence, raw.sequence)
                      /\ "price" \in raw.has /\ "symbol" \in raw.has
                      /\ DictGet(r.g.transaction_history, raw.symbol, EmptyList)
                           = DequeAppend(HistoryOf(raw.symbol), raw.price)
                      /\ r.g.fit_prices_all = ListAppend(fit_prices_all, raw.price)
                      /\ r.anomalies # << >> => Len(r.g.produced) = Len(produced) + 1
               none == /\ r.g.processed_sequence = processed_sequence
                       /\ r.g.transaction_history = transaction_history
                       /\ r.g.fit_prices_all = fit_prices_all
                       /\ r.g.produced = produced
           IN  all \/ none

\* the scorer's phase: 0 Warming, 1 Unfitted, 2 Fitted
Phase(g) ==
    IF g.is_fitted THEN 2 ELSE IF ListLen(g.fit_prices_all) >= WarmupSamples THEN 1 ELSE 0

RECURSIVE Expand(_)
\* the prices of a run-length encoded list, one by one
Expand(l) ==
    IF l = << >> THEN << >>
    ELSE [i \in 1..l[1].n |-> l[1].v] \o Expand(Tail(l))

C18_CorpusAccounting ==
    /\ ListLen(fit_prices_all) = SetLen(processed_sequence)
    /\ \A raw \in Decodable : \A env \in EnvsOf(Globals, raw) :
         Admitted(Globals, raw)
         => /\ "price" \in raw.has
            /\ Outcome(raw, env).g.fit_prices_all = ListAppend(fit_prices_all, raw.price)

\* C19: the fitted gate tracks the corpus size.  In every state is_fitted is
\* true exactly when the corpus holds at least 1000 prices.
C19_FittedTracksCorpus ==
    is_fitted <=> (ListLen(fit_prices_all) >= RetrainEvery)

\* the globals with the per-symbol state of the one symbol only
OnlySymbol(g, symbol) ==
    LET Keep(d) == [s \in DOMAIN d \cap {symbol} |-> d[s]]
    IN  [g EXCEPT !.high_volume_threshold = Keep(@),
                  !.rapid_price_change_threshold = Keep(@),
                  !.transaction_history = Keep(@)]

\* C20: symbol isolation.  A call for an event of symbol S leaves the history
\* of every other symbol as it was; no call changes the volume threshold or
\* the price-change threshold in force for any symbol, which are the
\* defaults in every state; and the two per-symbol rules answer for S the
\* same with the other symbols' state removed.
C20_SymbolIsolation ==
    /\ \A s \in DOMAIN high_volume_threshold :
         high_volume_threshold[s] = HighVolumeDefault
    /\ \A s \in DOMAIN rapid_price_change_threshold :
         rapid_price_change_threshold[s] = PriceChangeDefault
    /\ \A raw \in Payloads : \A env \in EnvsOf(Globals, raw) :
         LET r == Outcome(raw, env)
         IN  \A s \in Symbols :
               /\ ("symbol" \notin raw.has \/ s # raw.symbol)
                  => DictGet(r.g.transaction_history, s, EmptyList) = HistoryOf(s)
               /\ DictGet(r.g.high_volume_threshold, s, HighVolumeDefault)
                    = DictGet(high_volume_threshold, s, HighVolumeDefault)
               /\ DictGet(r.g.rapid_price_change_threshold, s, PriceChangeDefault)
                    = DictGet(rapid_price_change_threshold, s, PriceChangeDefault)
    /\ \A raw \in Trades :
         LET alone == OnlySymbol(Globals, raw.symbol)
         IN  /\ high_volume_rule(alone, raw).value = high_volume_rule(Globals, raw).value
             /\ rapid_price_change(alone, raw).value = rapid_price_change(Globals, raw).value
             /\ rapid_price_change(alone, raw).error = rapid_price_change(Globals, raw).error

\* C20 witness: the first event of Y, at 106, came after 98 events of X at
\* 100; X's history is as it was and both symbols have the default volume
\* threshold
C20_Witness ==
    /\ HistoryOf("X") = << [v |-> 100, n |-> 98] >>
    /\ HistoryOf("Y") = << [v |-> 106, n |-> 1] >>
    /\ high_volume_threshold = [s \in Symbols |-> HighVolumeDefault]

====
